---- MODULE Spec2Model ----
(***************************************************************************)
(* Model of braindump: the pattern extractor (processDump), the merger     *)
(* (mergeResults with its fuzzy duplicate test) and the enhancement call   *)
(* (enhance, callOpenAI, callAnthropic).                                   *)
(*                                                                         *)
(* JavaScript strings are sequences of one-character strings.  JavaScript  *)
(* values are tagged records [t, v].  Arrays and the stats object that the *)
(* code mutates live in a heap and are reached through references, so that *)
(* the sharing made by the shallow copy in mergeResults is part of the     *)
(* model.                                                                  *)
(***************************************************************************)
EXTENDS Integers, Sequences, FiniteSets, TLC

VARIABLES
    now,          \* the wall clock read by new Date(), in milliseconds
    heap,         \* reference -> array contents or stats object
    result,       \* the caller's variable holding the last processDump result
    firstDump,    \* history: text -> the first result processDump returned for it
    lastDump,     \* history: the result processDump returned last, as returned
    merged,       \* the value returned by the last mergeResults call
    mergeStatus,  \* "none", "returned" or "threw" for the last mergeResults call
    regexBefore,  \* history: contents of regexResult when mergeResults was entered
    lastLlm,      \* history: the llmResult argument of the last mergeResults call
    merges,       \* number of mergeResults calls made on the current result
    quickStatus,  \* outcome of the last CLI quick command
    enh,          \* the enhance call in progress: position, options, settlement
    lastSim       \* the last levenshteinSimilarity call: its arguments and its value

vars == <<now, heap, result, firstDump, lastDump, merged, mergeStatus,
          regexBefore, lastLlm, merges, quickStatus, enh, lastSim>>

(***************************************************************************)
(* Bounds of the model.                                                    *)
(***************************************************************************)
MaxClock == 2
MaxMerges == 1
MaxIncoming == 2
MaxLen == 3

(***************************************************************************)
(* JavaScript values.                                                      *)
(***************************************************************************)
Undefined == [t |-> "undefined", v |-> <<>>]
Str(s) == [t |-> "string", v |-> s]
Num(n) == [t |-> "number", v |-> n]
Bool(b) == [t |-> "boolean", v |-> b]
Arr(s) == [t |-> "array", v |-> s]
Obj(f) == [t |-> "object", v |-> f]
Ref(r) == [t |-> "ref", v |-> r]

\* o.k : a missing property, and any property of a primitive, reads undefined
Get(o, k) == IF o.t = "object" /\ k \in DOMAIN o.v THEN o.v[k] ELSE Undefined

\* JavaScript truthiness, as used by if (x), !x and x || y
Truthy(x) ==
    CASE x.t = "undefined" -> FALSE
      [] x.t = "string" -> Len(x.v) > 0
      [] x.t = "number" -> x.v # 0
      [] x.t = "boolean" -> x.v
      [] OTHER -> TRUE

\* x || y
Or(x, y) == IF Truthy(x) THEN x ELSE y

(***************************************************************************)
(* String primitives of the runtime.                                       *)
(***************************************************************************)
Uppers == <<"A","B","C","D","E","F","G","H","I","J","K","L","M",
            "N","O","P","Q","R","S","T","U","V","W","X","Y","Z">>
Lowers == <<"a","b","c","d","e","f","g","h","i","j","k","l","m",
            "n","o","p","q","r","s","t","u","v","w","x","y","z">>

LowerChar(c) ==
    IF \E i \in 1..Len(Uppers) : Uppers[i] = c
    THEN Lowers[CHOOSE i \in 1..Len(Uppers) : Uppers[i] = c]
    ELSE c

\* String.prototype.toLowerCase
ToLowerCase(s) == [i \in 1..Len(s) |-> LowerChar(s[i])]

\* String.prototype.includes
Includes(s, sub) ==
    \E i \in 0..(Len(s) - Len(sub)) : SubSeq(s, i + 1, i + Len(sub)) = sub

IsSpace(c) == c \in {" ", "\t", "\n"}

RECURSIVE TrimStart(_)
TrimStart(s) ==
    IF Len(s) > 0 /\ IsSpace(s[1]) THEN TrimStart(Tail(s)) ELSE s

RECURSIVE TrimEnd(_)
TrimEnd(s) ==
    IF Len(s) > 0 /\ IsSpace(s[Len(s)]) THEN TrimEnd(SubSeq(s, 1, Len(s) - 1)) ELSE s

\* String.prototype.trim
Trim(s) == TrimEnd(TrimStart(s))

Min2(x, y) == IF x <= y THEN x ELSE y
Max2(x, y) == IF x >= y THEN x ELSE y

(***************************************************************************)
(* levenshteinSimilarity: the matrix is filled row by row as in the code;  *)
(* rows and columns are stored 1-based, matrix[i][j] is LevMatrix[i+1][j+1]*)
(* The quotient 1 - distance/maxLen is kept exact as num/den.              *)
(***************************************************************************)
RECURSIVE LevRow(_, _, _, _, _)
LevRow(a, b, i, prev, cur) ==
    LET j == Len(cur) IN
    IF j > Len(a) THEN cur
    ELSE LET cell == IF b[i] = a[j]
                     THEN prev[j]
                     ELSE Min2(prev[j] + 1, Min2(cur[j] + 1, prev[j + 1] + 1))
         IN LevRow(a, b, i, prev, Append(cur, cell))

RECURSIVE LevMatrix(_, _, _)
LevMatrix(a, b, m) ==
    LET i == Len(m) IN
    IF i > Len(b) THEN m
    ELSE LevMatrix(a, b, Append(m, LevRow(a, b, i, m[i], <<i>>)))

LevDistance(a, b) ==
    LevMatrix(a, b, << [j \in 1..(Len(a) + 1) |-> j - 1] >>)[Len(b) + 1][Len(a) + 1]

\* mutant: the distance is divided by the length of the first string
levenshteinSimilarityFirstLen(a, b) ==
    IF a = b THEN [num |-> 1, den |-> 1]
    ELSE IF Len(a) = 0 \/ Len(b) = 0 THEN [num |-> 0, den |-> 1]
    ELSE [num |-> Len(a) - LevDistance(a, b), den |-> Len(a)]

levenshteinSimilarity(a, b) ==
    IF a = b THEN [num |-> 1, den |-> 1]
    ELSE IF Len(a) = 0 \/ Len(b) = 0 THEN [num |-> 0, den |-> 1]
    ELSE LET maxLen == Max2(Len(a), Len(b))
         IN [num |-> maxLen - LevDistance(a, b), den |-> maxLen]

(***************************************************************************)
(* Input texts of the model, and the phrases the patterns find in them.    *)
(***************************************************************************)
TextEmpty ==
    <<>>

TextDecision ==
    <<"u","s","e"," ","p","o","s","t","g","r","e","s"," ","o","r"," ","m","y","s","q",
      "l">>

TextEmail ==
    <<"n","e","e","d"," ","t","o"," ","e","m","a","i","l"," ","J","o","h","n","."," ",
      "t","o","d","o",":"," ","e","m","a","i","l"," ","J","o","h","n">>

TextQuestion ==
    <<"s","h","o","u","l","d"," ","w","e"," ","c","a","l","l"," ","B","o","b"," ","t",
      "o","m","o","r","r","o","w","?">>

TextFix ==
    <<"m","u","s","t"," ","f","i","x"," ","i","t"," ",","," ","t","o","d","o",":"," ",
      "f","i","x"," ","i","t","."," ","b","l","o","c","k","e","d"," ","o","n"," ","Q",
      "A">>

Texts == {TextEmpty, TextDecision, TextEmail, TextQuestion, TextFix}

S_NeedToEmailJohnDot ==
    <<"n","e","e","d"," ","t","o"," ","e","m","a","i","l"," ","J","o","h","n",".">>

S_EmailJohn ==
    <<"e","m","a","i","l"," ","J","o","h","n">>

S_TodoEmailJohn ==
    <<"t","o","d","o",":"," ","e","m","a","i","l"," ","J","o","h","n">>

S_John ==
    <<"J","o","h","n">>

S_ShouldWeCallBobTomorrowQ ==
    <<"s","h","o","u","l","d"," ","w","e"," ","c","a","l","l"," ","B","o","b"," ","t",
      "o","m","o","r","r","o","w","?">>

S_WeCallBobTomorrowQ ==
    <<"w","e"," ","c","a","l","l"," ","B","o","b"," ","t","o","m","o","r","r","o","w",
      "?">>

S_CallBob ==
    <<"c","a","l","l"," ","B","o","b">>

S_Bob ==
    <<"B","o","b">>

S_Tomorrow ==
    <<"t","o","m","o","r","r","o","w">>

S_CallBobTomorrowQ ==
    <<"c","a","l","l"," ","B","o","b"," ","t","o","m","o","r","r","o","w","?">>

S_QuestionMark ==
    <<"?">>

S_MustFixItComma ==
    <<"m","u","s","t"," ","f","i","x"," ","i","t"," ",",">>

S_FixItUntrimmed ==
    <<"f","i","x"," ","i","t"," ">>

S_TodoFixItDot ==
    <<"t","o","d","o",":"," ","f","i","x"," ","i","t",".">>

S_FixIt ==
    <<"f","i","x"," ","i","t">>

S_BlockedOnQa ==
    <<"b","l","o","c","k","e","d"," ","o","n"," ","Q","A">>

S_Qa ==
    <<"Q","A">>


Categories == <<"actions", "people", "dates", "questions", "ideas", "blockers">>

\* the number of rules each category has in the pattern catalogue
PatternCount(category) ==
    CASE category = "actions" -> 4
      [] category = "dates" -> 5
      [] OTHER -> 2

\* RegExp.prototype.exec, called until it returns null, for each rule of a category:
\* one sequence of matches <<match[0], match[1]>> per rule, for the texts of the model
regexExec(text, category) ==
    CASE text = TextEmail /\ category = "actions" ->
            <<<<<<Str(S_NeedToEmailJohnDot), Str(S_EmailJohn)>>>>,
              <<<<Str(S_TodoEmailJohn), Str(S_EmailJohn)>>>>,
              <<>>,
              <<>>>>
      [] text = TextEmail /\ category = "people" ->
            <<<<>>,
              <<<<Str(S_EmailJohn), Str(S_John)>>, <<Str(S_EmailJohn), Str(S_John)>>>>>>
      [] text = TextQuestion /\ category = "actions" ->
            <<<<<<Str(S_ShouldWeCallBobTomorrowQ), Str(S_WeCallBobTomorrowQ)>>>>,
              <<>>,
              <<>>,
              <<>>>>
      [] text = TextQuestion /\ category = "people" ->
            <<<<>>,
              <<<<Str(S_CallBob), Str(S_Bob)>>>>>>
      [] text = TextQuestion /\ category = "dates" ->
            <<<<<<Str(S_Tomorrow), Str(S_Tomorrow)>>>>,
              <<>>,
              <<>>,
              <<>>,
              <<>>>>
      [] text = TextQuestion /\ category = "questions" ->
            <<<<<<Str(S_ShouldWeCallBobTomorrowQ), Str(S_CallBobTomorrowQ)>>>>,
              <<<<Str(S_QuestionMark), Undefined>>>>>>
      [] text = TextFix /\ category = "actions" ->
            <<<<<<Str(S_MustFixItComma), Str(S_FixItUntrimmed)>>>>,
              <<<<Str(S_TodoFixItDot), Str(S_FixIt)>>>>,
              <<>>,
              <<>>>>
      [] text = TextFix /\ category = "blockers" ->
            <<<<<<Str(S_BlockedOnQa), Str(S_Qa)>>>>,
              <<>>>>
      [] OTHER -> [p \in 1..PatternCount(category) |-> <<>>]

(***************************************************************************)
(* extractMatches: the insertion-ordered Set is a duplicate-free sequence. *)
(***************************************************************************)
SeqRange(s) == {s[i] : i \in 1..Len(s)}

\* mutant: one Set kept across calls, still holding what the previous call found
NewSetShared ==
    IF result = Undefined THEN <<>> ELSE SelectSeq(heap[1].v, LAMBDA e : e.t = "string")

\* new Set()
NewSet == <<>>

\* mutant: an array push in place of Set.prototype.add
SetAddNoCheck(set, x) == Append(set, x)

\* Set.prototype.add
SetAdd(set, x) == IF x \in SeqRange(set) THEN set ELSE Append(set, x)

\* the body of the while loop for one match
AddMatch(matches, match) ==
    LET extracted == Or(match[2], match[1]) IN
    IF Truthy(extracted) /\ Truthy(Str(Trim(extracted.v)))
    THEN SetAdd(matches, Str(Trim(extracted.v)))
    ELSE matches

RECURSIVE ExecLoop(_, _)
ExecLoop(matches, found) ==
    IF found = <<>> THEN matches
    ELSE ExecLoop(AddMatch(matches, Head(found)), Tail(found))

RECURSIVE PatternLoop(_, _)
PatternLoop(matches, patternList) ==
    IF patternList = <<>> THEN matches
    ELSE PatternLoop(ExecLoop(matches, Head(patternList)), Tail(patternList))

extractMatches(text, category) == PatternLoop(NewSet, regexExec(text, category))

(***************************************************************************)
(* processDump                                                             *)
(***************************************************************************)
Digits == <<"0","1","2","3","4","5","6","7","8","9">>

\* Date.prototype.toISOString for a time within the first second of the epoch
ToISOString(ms) ==
    <<"1","9","7","0","-","0","1","-","0","1","T","0","0",":","0","0",":","0","0",".",
      Digits[((ms \div 100) % 10) + 1], Digits[((ms \div 10) % 10) + 1], Digits[(ms % 10) + 1],
      "Z">>

\* text.split(/\s+/).length : one more than the number of whitespace runs
WordCount(text) ==
    1 + Cardinality({i \in 1..Len(text) :
                        IsSpace(text[i]) /\ (i = 1 \/ ~IsSpace(text[i - 1]))})

\* references of the arrays and of the stats object of a fresh result
RefOf(field) ==
    CASE field = "actions" -> 1
      [] field = "people" -> 2
      [] field = "dates" -> 3
      [] field = "questions" -> 4
      [] field = "ideas" -> 5
      [] field = "blockers" -> 6
      [] field = "stats" -> 7

StatsOf(text, arrays) ==
    Obj([word_count |-> Num(WordCount(text)),
         action_count |-> Num(Len(arrays[1].v)),
         people_mentioned |-> Num(Len(arrays[2].v)),
         has_deadlines |-> Bool(Len(arrays[3].v) > 0),
         has_blockers |-> Bool(Len(arrays[6].v) > 0)])

\* the heap after processDump(text): six arrays and the stats object
processDumpHeap(text) ==
    LET arrays == [r \in 1..6 |-> Arr(extractMatches(text, Categories[r]))]
    IN [r \in 1..7 |-> IF r <= 6 THEN arrays[r] ELSE StatsOf(text, arrays)]

\* the object processDump(text) returns at time clock
processDumpObject(text, clock) ==
    Obj([raw |-> Str(text),
         processed_at |-> Str(ToISOString(clock)),
         actions |-> Ref(RefOf("actions")),
         people |-> Ref(RefOf("people")),
         dates |-> Ref(RefOf("dates")),
         questions |-> Ref(RefOf("questions")),
         ideas |-> Ref(RefOf("ideas")),
         blockers |-> Ref(RefOf("blockers")),
         stats |-> Ref(RefOf("stats"))])

\* an object with its references followed: what a reader of the object sees
Deep(o, h) ==
    Obj([k \in DOMAIN o.v |-> IF o.v[k].t = "ref" THEN h[o.v[k].v] ELSE o.v[k]])

(***************************************************************************)
(* mergeResults                                                            *)
(***************************************************************************)
S_Medium == <<"m","e","d","i","u","m">>
S_High == <<"h","i","g","h">>
S_Llm == <<"l","l","m">>

\* the similarity threshold 0.7 and the default confidence 0.8, in tenths
SimilarityThresholdTenths == 7
DefaultConfidenceTenths == 8

\* mutant: a threshold of 0.9
ExceedsHigherThreshold(sim) == sim.num * 10 > 9 * sim.den

\* levenshteinSimilarity(e, newLower) > 0.7
ExceedsThreshold(sim) == sim.num * 10 > SimilarityThresholdTenths * sim.den

\* typeof e === 'string' ? e : e.text
TextOf(e) == IF e.t = "string" THEN e ELSE Get(e, "text")

\* x.toLowerCase() is a TypeError unless x is a string
CanLower(x) == x.t = "string"

\* the test of one existing lower-cased text against the new one
SameItem(e, newLower) ==
    \/ Includes(e, newLower)
    \/ Includes(newLower, e)
    \/ ExceedsThreshold(levenshteinSimilarity(e, newLower))

\* the helper isDuplicate: [threw, dup]
isDuplicate(existing, newItem) ==
    LET texts == [i \in 1..Len(existing) |-> TextOf(existing[i])]
        newText == TextOf(newItem)
    IN IF (\E i \in 1..Len(existing) : ~CanLower(texts[i])) \/ ~CanLower(newText)
       THEN [threw |-> TRUE, dup |-> FALSE]
       ELSE [threw |-> FALSE,
             dup |-> \E i \in 1..Len(existing) :
                        SameItem(ToLowerCase(texts[i].v), ToLowerCase(newText.v))]

\* merged.people.some(p => p.toLowerCase() === name.toLowerCase()): [threw, dup]
RECURSIVE somePerson(_, _)
somePerson(people, name) ==
    IF people = <<>> THEN [threw |-> FALSE, dup |-> FALSE]
    ELSE IF ~CanLower(Head(people)) \/ ~CanLower(name)
         THEN [threw |-> TRUE, dup |-> FALSE]
    ELSE IF ToLowerCase(Head(people).v) = ToLowerCase(name.v)
         THEN [threw |-> FALSE, dup |-> TRUE]
    ELSE somePerson(Tail(people), name)

\* the record pushed for a new action
NewAction(action) ==
    Obj([text |-> Get(action, "text"),
         priority |-> Or(Get(action, "priority"), Str(S_Medium)),
         confidence |-> Or(Get(action, "confidence"), Num(DefaultConfidenceTenths)),
         source |-> Str(S_Llm)])

KindOf(category) ==
    IF category \in {"actions", "people", "dates"} THEN category ELSE "plain"

\* the value an incoming entry is compared by
Compared(kind, item) ==
    CASE kind = "people" -> IF item.t = "string" THEN item ELSE Get(item, "name")
      [] kind = "dates" -> IF item.t = "string" THEN item ELSE Get(item, "text")
      [] OTHER -> item

\* the value pushed for an incoming entry that is no duplicate
Pushed(kind, item) ==
    IF kind = "actions" THEN NewAction(item) ELSE Compared(kind, item)

\* mutant: incoming entries are checked against the list as it was on entry only
CheckedAgainstEntry(h, entry, ref) == entry[ref].v

\* the list an incoming entry is checked against: the array being merged into,
\* as it is now (entry is the heap as it was when mergeResults was entered)
CheckedAgainst(h, entry, ref) == h[ref].v

\* Array.prototype.push
Push(h, ref, x) == [h EXCEPT ![ref] = Arr(Append(@.v, x))]

\* one for-of loop of mergeResults: [heap, threw]
RECURSIVE MergeLoop(_, _, _, _, _)
MergeLoop(kind, h, entry, ref, items) ==
    IF items = <<>> THEN [heap |-> h, threw |-> FALSE]
    ELSE LET item == Head(items)
             list == CheckedAgainst(h, entry, ref)
             test == IF kind = "people"
                     THEN somePerson(list, Compared(kind, item))
                     ELSE isDuplicate(list, Compared(kind, item))
         IN IF test.threw THEN [heap |-> h, threw |-> TRUE]
            ELSE MergeLoop(kind,
                           IF test.dup THEN h ELSE Push(h, ref, Pushed(kind, item)),
                           entry, ref, Tail(items))

\* the six if (llmResult.<category>) blocks, in order: [heap, threw]
RECURSIVE MergeCategories(_, _, _, _, _)
MergeCategories(mergedObj, llmResult, h, entry, c) ==
    IF c > Len(Categories) THEN [heap |-> h, threw |-> FALSE]
    ELSE LET incoming == Get(llmResult, Categories[c])
             done == IF Truthy(incoming)
                     THEN MergeLoop(KindOf(Categories[c]), h, entry,
                                    Get(mergedObj, Categories[c]).v, incoming.v)
                     ELSE [heap |-> h, threw |-> FALSE]
         IN IF done.threw THEN done
            ELSE MergeCategories(mergedObj, llmResult, done.heap, entry, c + 1)

\* mutant: the flag is set and the counts are left as they were
UpdateStatsFlagOnly(mergedObj, h) ==
    LET ref == Get(mergedObj, "stats").v
        old == h[ref].v
    IN [h EXCEPT ![ref] =
          Obj([k \in DOMAIN old \cup {"llm_enhanced"} |->
                 IF k = "llm_enhanced" THEN Bool(TRUE) ELSE old[k]])]

\* the "Update stats" block
UpdateStats(mergedObj, h) ==
    LET ref == Get(mergedObj, "stats").v
        old == h[ref].v
    IN [h EXCEPT ![ref] =
          Obj([k \in DOMAIN old \cup {"llm_enhanced"} |->
                 CASE k = "llm_enhanced" -> Bool(TRUE)
                   [] k = "action_count" -> Num(Len(h[Get(mergedObj, "actions").v].v))
                   [] k = "people_mentioned" -> Num(Len(h[Get(mergedObj, "people").v].v))
                   [] OTHER -> old[k]])]

\* const merged = { ...regexResult } : a new object with the same property values
ShallowCopy(regexResult) == Obj([k \in DOMAIN regexResult.v |-> regexResult.v[k]])

\* mergeResults(regexResult, llmResult) run on heap h: [heap, threw, value]
mergeResults(regexResult, llmResult, h) ==
    LET mergedObj == ShallowCopy(regexResult)
        done == MergeCategories(mergedObj, llmResult, h, h, 1)
    IN IF done.threw
       THEN [heap |-> done.heap, threw |-> TRUE, value |-> Undefined]
       ELSE [heap |-> UpdateStats(mergedObj, done.heap), threw |-> FALSE,
             value |-> mergedObj]

(***************************************************************************)
(* Enhancement results handed to mergeResults.  Entries are bare strings   *)
(* or objects, as the prompt's schema and the providers produce them.      *)
(***************************************************************************)
S_EmailJohnCaps == <<"E","m","a","i","l"," ","J","o","h","n">>
S_EmailJane == <<"e","m","a","i","l"," ","J","a","n","e">>
S_JohnLower == <<"j","o","h","n">>
S_Jo == <<"J","o">>
S_Tomorow == <<"T","o","m","o","r","o","w">>
S_ByFriday == <<"b","y"," ","f","r","i","d","a","y">>
S_Why == <<"w","h","y","?">>
S_QaTeam == <<"Q","A"," ","t","e","a","m">>
S_QaLower == <<"q","a">>

ActionEntries ==
    { Obj([text |-> Str(S_EmailJohnCaps), priority |-> Str(S_High), confidence |-> Num(0)]),
      Obj([text |-> Str(S_EmailJane), confidence |-> Num(5)]),
      Str(S_CallBob) }

PeopleEntries == { Str(S_JohnLower), Obj([name |-> Str(S_Jo), context |-> Str(S_QaTeam)]) }

DateEntries == { Obj([text |-> Str(S_Tomorow), urgency |-> Str(S_High)]), Str(S_ByFriday) }

QuestionEntries == { Str(S_Why), Obj([text |-> Str(S_QaTeam)]) }

IdeaEntries == { Obj([text |-> Str(S_QaTeam)]) }

BlockerEntries == { Str(S_QaLower) }

EntriesOf(category) ==
    CASE category = "actions" -> ActionEntries
      [] category = "people" -> PeopleEntries
      [] category = "dates" -> DateEntries
      [] category = "questions" -> QuestionEntries
      [] category = "ideas" -> IdeaEntries
      [] category = "blockers" -> BlockerEntries

SeqsUpTo(S, n) == UNION {[1..k -> S] : k \in 0..n}

\* an enhancement result with one category present
OneCategory(category, entries) == Obj([k \in {category} |-> Arr(entries)])

\* an enhancement result with all six categories, and one with none
LlmFull ==
    Obj([actions |-> Arr(<<Obj([text |-> Str(S_EmailJane)])>>),
         people |-> Arr(<<Obj([name |-> Str(S_Jo), context |-> Str(S_QaTeam)])>>),
         dates |-> Arr(<<Str(S_ByFriday)>>),
         questions |-> Arr(<<Str(S_Why)>>),
         ideas |-> Arr(<<Str(S_QaLower)>>),
         blockers |-> Arr(<<Obj([text |-> Str(S_QaTeam)])>>)])

LlmNone == Obj([k \in {} |-> Undefined])

\* an enhancement result whose action entry has no text
LlmNoText == Obj([actions |-> Arr(<<Obj([name |-> Str(S_Jo)])>>)])

LlmResults ==
    {LlmFull, LlmNone, LlmNoText} \cup
    UNION { {OneCategory(Categories[c], es) : es \in SeqsUpTo(EntriesOf(Categories[c]), MaxIncoming)}
            : c \in 1..Len(Categories) }

(***************************************************************************)
(* enhance, callOpenAI and callAnthropic.  An error is its message: a      *)
(* format with its arguments.  A computation that throws yields Thrown(m). *)
(***************************************************************************)
S_OpenAi == <<"o","p","e","n","a","i">>
S_Anthropic == <<"a","n","t","h","r","o","p","i","c">>
S_Gemini == <<"g","e","m","i","n","i">>
S_Key == <<"s","k","-","1">>

Message(fmt, args) == [fmt |-> fmt, args |-> args]
Thrown(m) == [t |-> "thrown", v |-> m]
TypeError == Message("TypeError: cannot read properties of undefined", <<>>)
SyntaxError == Message("SyntaxError: not valid JSON", <<>>)
FetchFailed == Message("fetch failed", <<>>)

\* x.k, a TypeError when x is undefined
Prop(x, k) ==
    IF x.t = "thrown" THEN x
    ELSE IF x.t = "undefined" THEN Thrown(TypeError)
    ELSE Get(x, k)

\* x[0], a TypeError when x is undefined
Index0(x) ==
    IF x.t = "thrown" THEN x
    ELSE IF x.t = "undefined" THEN Thrown(TypeError)
    ELSE IF x.t = "array" /\ Len(x.v) > 0 THEN x.v[1]
    ELSE Undefined

\* Texts a model may answer with, as sequences of tokens: "{" and "}", the token
\* "k" for the members of an object, and other tokens for prose.
\* JSON.parse on such a text
JsonParse(content) ==
    IF content.t = "thrown" THEN content
    ELSE IF content.t # "string" THEN Thrown(SyntaxError)
    ELSE IF content.v = <<"{", "}">> THEN LlmNone
    ELSE IF content.v = <<"{", "k", "}">> THEN LlmFull
    ELSE Thrown(SyntaxError)

\* content.match(/\{[\s\S]*\}/): from the first "{" to the last "}" after it
MatchBraces(content) ==
    IF content.t = "thrown" THEN content
    ELSE IF content.t # "string" THEN Thrown(TypeError)
    ELSE LET s == content.v
             opens == {i \in 1..Len(s) : s[i] = "{"}
         IN IF opens = {} THEN Undefined
            ELSE LET first == CHOOSE i \in opens : \A k \in opens : i <= k
                     closes == {j \in (first + 1)..Len(s) : s[j] = "}"}
                 IN IF closes = {} THEN Undefined
                    ELSE LET last == CHOOSE j \in closes : \A k \in closes : j >= k
                         IN Arr(<<Str(SubSeq(s, first, last))>>)

Contents ==
    { <<"{", "k", "}">>,
      <<"{", "}">>,
      <<"H", "i", " ", "{", "k", "}", " ", ".">>,
      <<"s", "o", "r", "r", "y">>,
      <<"{", "k", "}", " ", "{", "}">>,
      <<"}", " ", "{">>,
      <<"{", "o", "o", "p", "s", "}">> }

OpenAIEnvelope(content) ==
    Obj([choices |-> Arr(<<Obj([message |-> Obj([content |-> Str(content)])])>>)])

AnthropicEnvelope(content) ==
    Obj([content |-> Arr(<<Obj([text |-> Str(content)])>>)])

\* what response.json() yields for the bodies of the model
Bodies ==
    {OpenAIEnvelope(c) : c \in Contents} \cup {AnthropicEnvelope(c) : c \in Contents}
    \cup {Obj([choices |-> Arr(<<>>)]), Thrown(SyntaxError)}

\* a response: ok, status, the body as response.text() yields it (read for a
\* response that is not ok) and as response.json() parses it
Responses ==
    {[text |-> "", ok |-> TRUE, status |-> "200", json |-> b] : b \in Bodies}
    \cup {[text |-> "invalid api key", ok |-> FALSE, status |-> "401", json |-> Thrown(SyntaxError)],
          [text |-> "overloaded", ok |-> FALSE, status |-> "500", json |-> Thrown(SyntaxError)]}

NoResponse == [text |-> "", ok |-> FALSE, status |-> "", json |-> Undefined]

ProviderOptions == {Undefined, Str(S_OpenAi), Str(S_Anthropic), Str(S_Gemini)}
KeyOptions == {Undefined, Str(<<>>), Str(S_Key)}
EnvValues == {Undefined, Str(S_Key)}

\* const provider = options.provider || 'openai'
ProviderOf(options) == Or(Get(options, "provider"), Str(S_OpenAi))

\* the function enhance calls: callAnthropic for 'anthropic', callOpenAI otherwise
CalleeOf(options) ==
    IF ProviderOf(options) = Str(S_Anthropic) THEN "callAnthropic" ELSE "callOpenAI"

EnvName(callee) ==
    IF callee = "callAnthropic" THEN "ANTHROPIC_API_KEY" ELSE "OPENAI_API_KEY"

\* const apiKey = options.apiKey || process.env.<NAME>
ApiKeyOf(callee, options, env) == Or(Get(options, "apiKey"), Get(env, EnvName(callee)))

KeyRequired(callee) ==
    IF callee = "callAnthropic"
    THEN Message("Anthropic API key required. Set ANTHROPIC_API_KEY or pass apiKey option.", <<>>)
    ELSE Message("OpenAI API key required. Set OPENAI_API_KEY or pass apiKey option.", <<>>)

ApiError(callee, status, text) ==
    IF callee = "callAnthropic"
    THEN Message("Anthropic API error: %s - %s", <<status, text>>)
    ELSE Message("OpenAI API error: %s - %s", <<status, text>>)

NoJsonFound == Message("Failed to parse JSON from Anthropic response", <<>>)

Request(callee, apiKey) == [endpoint |-> callee, key |-> apiKey]

\* mutant: the request is sent before the key is looked at
callStartFetchFirst(callee, apiKey) ==
    [threw |-> ~Truthy(apiKey), message |-> KeyRequired(callee),
     requests |-> <<Request(callee, apiKey)>>]

\* callOpenAI / callAnthropic up to their first await: the key check, then fetch
callStart(callee, apiKey) ==
    IF ~Truthy(apiKey)
    THEN [threw |-> TRUE, message |-> KeyRequired(callee), requests |-> <<>>]
    ELSE [threw |-> FALSE, message |-> KeyRequired(callee),
          requests |-> <<Request(callee, apiKey)>>]

\* callOpenAI / callAnthropic after fetch resolved: a value or Thrown
callFinish(callee, response) ==
    IF ~response.ok THEN Thrown(ApiError(callee, response.status, response.text))
    ELSE IF callee = "callAnthropic"
    THEN LET content == Prop(Index0(Prop(response.json, "content")), "text")
             jsonMatch == MatchBraces(content)
         IN IF jsonMatch.t = "thrown" THEN jsonMatch
            ELSE IF ~Truthy(jsonMatch) THEN Thrown(NoJsonFound)
            ELSE JsonParse(Index0(jsonMatch))
    ELSE JsonParse(Prop(Prop(Index0(Prop(response.json, "choices")), "message"), "content"))

Pending == [kind |-> "pending", value |-> Undefined, message |-> Message("", <<>>)]
Fulfilled(x) == [kind |-> "value", value |-> x, message |-> Message("", <<>>)]
Rejected(m) == [kind |-> "error", value |-> Undefined, message |-> m]

\* mutant: the promise is returned without await, so the catch never runs
enhanceSettleNoCatch(provider, inner) == inner

\* the try/catch of enhance around the awaited call
enhanceSettle(provider, inner) ==
    IF inner.kind = "error"
    THEN Rejected(Message("LLM enhancement failed (%s): %s", <<provider.v, inner.message>>))
    ELSE inner

\* the options objects callers pass to enhance() and the process.env it reads
OptionsPool ==
    {Obj([apiKey |-> key, provider |-> name]) : key \in KeyOptions, name \in ProviderOptions}

EnvPool ==
    {Obj([OPENAI_API_KEY |-> openai, ANTHROPIC_API_KEY |-> anthropic]) :
        openai \in EnvValues, anthropic \in EnvValues}

EnhIdle ==
    [options |-> Undefined, env |-> Undefined, requests |-> <<>>,
     response |-> NoResponse, inner |-> Pending, pc |-> "idle", outcome |-> Pending]

(***************************************************************************)
(* The caller: processDump, mergeResults, the clock and the CLI.           *)
(***************************************************************************)
Init ==
    /\ now = 0
    /\ heap = <<>>
    /\ result = Undefined
    /\ firstDump = Undefined
    /\ lastDump = Undefined
    /\ merged = Undefined
    /\ mergeStatus = "none"
    /\ regexBefore = Undefined
    /\ lastLlm = Undefined
    /\ merges = 0
    /\ quickStatus = "none"
    /\ enh = EnhIdle
    /\ lastSim = Undefined

\* result = processDump(text)
ProcessDump(text) ==
    /\ result' = processDumpObject(text, now)
    /\ heap' = processDumpHeap(text)
    /\ lastDump' = Deep(result', heap')
    /\ firstDump' = IF firstDump = Undefined THEN lastDump' ELSE firstDump
    /\ merged' = Undefined
    /\ mergeStatus' = "none"
    /\ regexBefore' = Undefined
    /\ lastLlm' = Undefined
    /\ merges' = 0
    /\ UNCHANGED <<now, quickStatus, enh, lastSim>>

\* the first processDump of a run of the pipeline
FirstDump(text) == result = Undefined /\ ProcessDump(text)

\* merged = mergeResults(result, llmResult)
MergeResults(llmResult) ==
    /\ result # Undefined
    /\ merges < MaxMerges
    /\ LET r == mergeResults(result, llmResult, heap)
       IN /\ heap' = r.heap
          /\ merged' = r.value
          /\ mergeStatus' = IF r.threw THEN "threw" ELSE "returned"
    /\ regexBefore' = Deep(result, heap)
    /\ lastLlm' = llmResult
    /\ merges' = merges + 1
    /\ UNCHANGED <<now, result, firstDump, lastDump, quickStatus, enh, lastSim>>

\* time passes
Tick ==
    /\ now < MaxClock
    /\ now' = now + 1
    /\ UNCHANGED <<heap, result, firstDump, lastDump, merged, mergeStatus,
                   regexBefore, lastLlm, merges, quickStatus, enh, lastSim>>

\* x.length is a TypeError when x is undefined
LengthThrows(x) == x.t = "undefined"

\* the CLI's quick command: processDump, then the prints up to result.decisions.length
QuickCommand(text) ==
    /\ quickStatus' = IF LengthThrows(Get(processDumpObject(text, now), "decisions"))
                      THEN "threw" ELSE "ok"
    /\ UNCHANGED <<now, heap, result, firstDump, lastDump, merged, mergeStatus,
                   regexBefore, lastLlm, merges, enh, lastSim>>

\* one run of the pipeline: extract once, then merge
Next ==
    \/ \E text \in Texts : FirstDump(text)
    \/ \E llmResult \in LlmResults : MergeResults(llmResult)

Spec == Init /\ [][Next]_vars

\* repeated extraction over time, and the CLI
ExtractNext ==
    \/ \E text \in Texts : ProcessDump(text)
    \/ Tick
    \/ \E text \in Texts : QuickCommand(text)

ExtractSpec == Init /\ [][ExtractNext]_vars

(***************************************************************************)
(* Properties of the merger, checked under Spec.                           *)
(***************************************************************************)
\* what the caller reads through its variable result
View == Deep(result, heap)

\* a category of an object whose references were followed, as a sequence
ListOf(o, category) == Get(o, category).v

\* the entries an enhancement result brings for a category (none when absent)
Incoming(llmResult, category) ==
    IF Truthy(Get(llmResult, category)) THEN Get(llmResult, category).v ELSE <<>>

\* mergeResults was given the result exactly as processDump returned it
RegexIsFresh == regexBefore = lastDump

\* C1: after mergeResults returns, every category sequence and the stats mapping
\* of the regexResult object passed in have the contents they had before the call
C1_RegexResultUnaffected ==
    mergeStatus = "returned" =>
        \A field \in SeqRange(Categories) \cup {"stats"} :
            Get(View, field) = Get(regexBefore, field)

\* an entry is a bare string or an object with a text field (a name field for people)
WellFormedEntry(category, item) ==
    \/ item.t = "string"
    \/ /\ item.t = "object"
       /\ Get(item, IF category = "people" THEN "name" ELSE "text").t = "string"

WellFormed(llmResult) ==
    \A c \in 1..Len(Categories) :
        \A i \in 1..Len(Incoming(llmResult, Categories[c])) :
            WellFormedEntry(Categories[c], Incoming(llmResult, Categories[c])[i])

\* C2: mergeResults called with a processDump result and an enhancement result
\* whose entries are bare strings or objects with a text (name) field does not throw
C2_MergerNeverFails ==
    (mergeStatus # "none" /\ RegexIsFresh /\ WellFormed(lastLlm)) => mergeStatus = "returned"

\* the duplicate relation of the specification on two lower-cased texts: substring
\* either way, or a similarity above 0.7 (strictly) / of at least 0.7
SimilarAbove(a, b) ==
    LET s == levenshteinSimilarity(a, b) IN 10 * s.num > 7 * s.den

SimilarAtLeast(a, b) ==
    LET s == levenshteinSimilarity(a, b) IN 10 * s.num >= 7 * s.den

Contained(a, b) == Includes(a, b) \/ Includes(b, a)

\* two stored entries of a category are duplicates of each other
DuplicateEntries(category, x, y) ==
    LET a == TextOf(x)
        b == TextOf(y)
    IN /\ a.t = "string"
       /\ b.t = "string"
       /\ IF category = "people"
          THEN ToLowerCase(a.v) = ToLowerCase(b.v)
          ELSE \/ Contained(ToLowerCase(a.v), ToLowerCase(b.v))
               \/ SimilarAbove(ToLowerCase(a.v), ToLowerCase(b.v))

\* C3: no entry appended by a merge is a duplicate of an entry that precedes it
\* in the merged sequence, be that an existing entry or one appended earlier in
\* the same pass
C3_NoDuplicateAppended ==
    mergeStatus = "returned" =>
        \A c \in 1..Len(Categories) :
            LET list == ListOf(View, Categories[c])
                before == Len(ListOf(regexBefore, Categories[c]))
            IN \A j \in (before + 1)..Len(list) :
                  \A i \in 1..(j - 1) : ~DuplicateEntries(Categories[c], list[i], list[j])

\* an incoming entry repeated in one pass was appended once
C3_Witness ==
    /\ mergeStatus = "returned"
    /\ \E c \in 1..Len(Categories) :
          LET inc == Incoming(lastLlm, Categories[c])
          IN /\ Len(inc) >= 2
             /\ inc[1] = inc[2]
             /\ ListOf(regexBefore, Categories[c]) = <<>>
             /\ Len(ListOf(View, Categories[c])) = 1

\* the text an incoming entry is known by in its category
IncomingText(category, item) ==
    IF item.t = "string" THEN item
    ELSE Get(item, IF category = "people" THEN "name" ELSE "text")

\* the incoming entry is already present in the list: by substring either way or
\* by a similarity of at least 0.7, in every category
PresentAtLeast(category, item, list) ==
    LET a == IncomingText(category, item)
    IN /\ a.t = "string"
       /\ \E i \in 1..Len(list) :
             LET b == TextOf(list[i])
             IN /\ b.t = "string"
                /\ \/ Contained(ToLowerCase(b.v), ToLowerCase(a.v))
                   \/ SimilarAtLeast(ToLowerCase(b.v), ToLowerCase(a.v))

\* the incoming entry is already present in the list: by substring either way or
\* by a similarity above 0.7; for people, by equality ignoring case
PresentAbove(category, item, list) ==
    LET a == IncomingText(category, item)
    IN /\ a.t = "string"
       /\ \E i \in 1..Len(list) : DuplicateEntries(category, list[i], a)

SizesUnchanged ==
    \A c \in 1..Len(Categories) :
        Len(ListOf(View, Categories[c])) = Len(ListOf(regexBefore, Categories[c]))

\* C4 as stated: if every incoming entry is present by substring or by a
\* similarity of at least 0.7, the merge leaves the size of every category unchanged
C4_IdempotentAtLeast ==
    ( /\ mergeStatus = "returned"
      /\ \A c \in 1..Len(Categories) :
            \A i \in 1..Len(Incoming(lastLlm, Categories[c])) :
                PresentAtLeast(Categories[c], Incoming(lastLlm, Categories[c])[i],
                               ListOf(regexBefore, Categories[c])) )
    => SizesUnchanged

\* C4 amended: if every incoming entry is present by substring or by a similarity
\* strictly above 0.7 (people: by equality ignoring case), the merge leaves the
\* size of every category unchanged
C4_IdempotentAbove ==
    ( /\ mergeStatus = "returned"
      /\ \A c \in 1..Len(Categories) :
            \A i \in 1..Len(Incoming(lastLlm, Categories[c])) :
                PresentAbove(Categories[c], Incoming(lastLlm, Categories[c])[i],
                             ListOf(regexBefore, Categories[c])) )
    => SizesUnchanged

\* a date present only by similarity (neither text contains the other) was merged
C4_Witness ==
    /\ mergeStatus = "returned"
    /\ SizesUnchanged
    /\ Len(Incoming(lastLlm, "dates")) > 0
    /\ \A i \in 1..Len(Incoming(lastLlm, "dates")) :
          /\ PresentAbove("dates", Incoming(lastLlm, "dates")[i], ListOf(regexBefore, "dates"))
          /\ \A k \in 1..Len(ListOf(regexBefore, "dates")) :
                ~Contained(ToLowerCase(ListOf(regexBefore, "dates")[k].v),
                           ToLowerCase(IncomingText("dates", Incoming(lastLlm, "dates")[i]).v))

\* C5: after mergeResults returns, stats.action_count and stats.people_mentioned
\* are the lengths of the merged actions and people, and stats.llm_enhanced is true
C5_StatsRecomputed ==
    mergeStatus = "returned" =>
        LET m == Deep(merged, heap)
        IN /\ Get(Get(m, "stats"), "action_count") = Num(Len(ListOf(m, "actions")))
           /\ Get(Get(m, "stats"), "people_mentioned") = Num(Len(ListOf(m, "people")))
           /\ Get(Get(m, "stats"), "llm_enhanced") = Bool(TRUE)

\* a merge that appended an action and a person has returned
C5_Witness ==
    /\ mergeStatus = "returned"
    /\ Len(ListOf(View, "actions")) > Len(ListOf(regexBefore, "actions"))
    /\ Len(ListOf(View, "people")) > Len(ListOf(regexBefore, "people"))

\* C8: no category holds two entries with exactly the same text, in the result
\* of processDump and in the result of every mergeResults applied to it
C8_DistinctTexts ==
    result # Undefined =>
        \A c \in 1..Len(Categories) :
            LET list == ListOf(View, Categories[c])
            IN \A i \in 1..Len(list) : \A j \in 1..Len(list) :
                  i # j => TextOf(list[i]) # TextOf(list[j])

\* a text whose action is found by two rules was extracted and then merged into
C8_Witness ==
    /\ mergeStatus = "returned"
    /\ Get(View, "raw") = Str(TextEmail)
    /\ Len(ListOf(lastDump, "actions")) = 1
    /\ Len(ListOf(View, "actions")) > 1

\* the merged result as its reader sees it
MergedView == Deep(merged, heap)

\* the entries the last merge appended to a category
Appended(category) ==
    SubSeq(ListOf(MergedView, category),
           Len(ListOf(regexBefore, category)) + 1,
           Len(ListOf(MergedView, category)))

\* the incoming entry supplies a value for the field
Supplied(entry, field) == entry.t = "object" /\ field \in DOMAIN entry.v

S_External == <<"e","x","t","e","r","n","a","l">>

\* the record the claim expects for an incoming action: its text as written, its
\* own priority and confidence when supplied, 'medium' and 0.8 when not, and the
\* source tag "external"
ExpectedAction(entry) ==
    Obj([text |-> IncomingText("actions", entry),
         priority |-> IF Supplied(entry, "priority")
                      THEN Get(entry, "priority") ELSE Str(S_Medium),
         confidence |-> IF Supplied(entry, "confidence")
                        THEN Get(entry, "confidence") ELSE Num(8),
         source |-> Str(S_External)])

\* C12: every action appended by mergeResults is the record made from one of the
\* incoming actions: the entry's text with its casing, the priority and confidence
\* the entry supplies (a supplied confidence of 0 included) or 'medium' and 0.8
\* when it supplies none, and the source tag "external"
C12_AppendedActionRecord ==
    mergeStatus = "returned" =>
        \A i \in 1..Len(Appended("actions")) :
            \E j \in 1..Len(Incoming(lastLlm, "actions")) :
                Appended("actions")[i] = ExpectedAction(Incoming(lastLlm, "actions")[j])

\* the two derived flags of a result say whether its dates and blockers are non-empty
FlagsConsistent(o) ==
    /\ Get(Get(o, "stats"), "has_deadlines") = Bool(Len(ListOf(o, "dates")) > 0)
    /\ Get(Get(o, "stats"), "has_blockers") = Bool(Len(ListOf(o, "blockers")) > 0)

\* the result as processDump returned it carries consistent flags
C13_DumpFlagsConsistent == lastDump # Undefined => FlagsConsistent(lastDump)

\* C13: in every result returned by processDump or by mergeResults,
\* stats.has_deadlines is true exactly when dates is non-empty and
\* stats.has_blockers is true exactly when blockers is non-empty, also when the
\* merge appended a date or a blocker to a category that was empty
C13_FlagsConsistent ==
    /\ C13_DumpFlagsConsistent
    /\ mergeStatus = "returned" => FlagsConsistent(MergedView)

(***************************************************************************)
(* Properties of the extractor, checked under ExtractSpec.                 *)
(***************************************************************************)
SameText == lastDump # Undefined /\ Get(lastDump, "raw") = Get(firstDump, "raw")

C10_DecisionsReturned ==
    /\ lastDump # Undefined =>
          /\ Get(lastDump, "decisions").t = "array"
          /\ Get(lastDump, "raw") = Str(TextDecision) => Len(Get(lastDump, "decisions").v) > 0
    /\ quickStatus # "threw"

(***************************************************************************)
(* The steps of an enhance call.                                           *)
(***************************************************************************)
\* enhance(text, options) is called and runs to its first await
Enhance(options, env) ==
    /\ enh.pc \in {"idle", "settled"}
    /\ LET callee == CalleeOf(options)
           start == callStart(callee, ApiKeyOf(callee, options, env))
       IN enh' = IF start.threw
                 THEN [options |-> options, env |-> env,
                       requests |-> start.requests, response |-> NoResponse,
                       inner |-> Rejected(start.message), pc |-> "settled",
                       outcome |-> enhanceSettle(ProviderOf(options), Rejected(start.message))]
                 ELSE [options |-> options, env |-> env,
                       requests |-> start.requests, response |-> NoResponse,
                       inner |-> Pending, pc |-> "fetching", outcome |-> Pending]
    /\ UNCHANGED <<now, heap, result, firstDump, lastDump, merged, mergeStatus,
                   regexBefore, lastLlm, merges, quickStatus, lastSim>>

\* fetch resolves with a response
FetchResolves(response) ==
    /\ enh.pc = "fetching"
    /\ enh' = [enh EXCEPT !.pc = "reading", !.response = response]
    /\ UNCHANGED <<now, heap, result, firstDump, lastDump, merged, mergeStatus,
                   regexBefore, lastLlm, merges, quickStatus, lastSim>>

\* fetch rejects: the transport failed
FetchRejects ==
    /\ enh.pc = "fetching"
    /\ enh' = [enh EXCEPT !.pc = "settled",
                          !.inner = Rejected(FetchFailed),
                          !.outcome = enhanceSettle(ProviderOf(enh.options), Rejected(FetchFailed))]
    /\ UNCHANGED <<now, heap, result, firstDump, lastDump, merged, mergeStatus,
                   regexBefore, lastLlm, merges, quickStatus, lastSim>>

\* the body is read and parsed, and enhance settles
ReadBody ==
    /\ enh.pc = "reading"
    /\ LET got == callFinish(CalleeOf(enh.options), enh.response)
           inner == IF got.t = "thrown" THEN Rejected(got.v) ELSE Fulfilled(got)
       IN enh' = [enh EXCEPT !.pc = "settled",
                             !.inner = inner,
                             !.outcome = enhanceSettle(ProviderOf(enh.options), inner)]
    /\ UNCHANGED <<now, heap, result, firstDump, lastDump, merged, mergeStatus,
                   regexBefore, lastLlm, merges, quickStatus, lastSim>>

EnhanceNext ==
    \/ \E options \in OptionsPool, env \in EnvPool : Enhance(options, env)
    \/ \E response \in Responses : FetchResolves(response)
    \/ FetchRejects
    \/ ReadBody

EnhanceSpec == Init /\ [][EnhanceNext]_vars

(***************************************************************************)
(* Properties of enhance, checked under EnhanceSpec.                       *)
(***************************************************************************)
\* neither options.apiKey nor the provider's environment variable holds a key
NoCredential ==
    /\ ~Truthy(Get(enh.options, "apiKey"))
    /\ ~Truthy(Get(enh.env, IF Get(enh.options, "provider") = Str(S_Anthropic)
                            THEN "ANTHROPIC_API_KEY" ELSE "OPENAI_API_KEY"))

\* C6: without a credential enhance fails with a credential-required error and
\* issues no network request; every request issued carries a credential
C6_NoRequestWithoutCredential ==
    /\ (enh.pc # "idle" /\ NoCredential) =>
          /\ enh.requests = <<>>
          /\ enh.pc = "settled"
          /\ enh.outcome.kind = "error"
          /\ enh.outcome.message.args[2] \in {KeyRequired("callOpenAI"), KeyRequired("callAnthropic")}
    /\ \A i \in 1..Len(enh.requests) : Truthy(enh.requests[i].key)

\* anthropic was selected with only the OpenAI key set, and the call has failed
C6_Witness ==
    /\ enh.pc = "settled"
    /\ NoCredential
    /\ Get(enh.options, "provider") = Str(S_Anthropic)
    /\ Truthy(Get(enh.env, "OPENAI_API_KEY"))

\* C7: every failure of the call made by enhance reaches the caller as one
\* "enhancement failed" error with the selected provider's name and the cause's
\* message, and a failed call yields no value
C7_FailuresWrapped ==
    (enh.pc = "settled" /\ enh.inner.kind = "error") =>
        /\ enh.outcome.kind = "error"
        /\ enh.outcome.value = Undefined
        /\ enh.outcome.message.fmt = "LLM enhancement failed (%s): %s"
        /\ enh.outcome.message.args =
              << IF Truthy(Get(enh.options, "provider"))
                 THEN Get(enh.options, "provider").v ELSE S_OpenAi,
                 enh.inner.message >>

\* the Anthropic answer held no JSON object and the call has failed
C7_Witness ==
    /\ enh.pc = "settled"
    /\ enh.inner.kind = "error"
    /\ enh.inner.message = NoJsonFound
    /\ enh.response.ok

(***************************************************************************)
(* levenshteinSimilarity on its own: the merger calls it with two          *)
(* lower-cased strings (existingLower.some(e => ... levenshteinSimilarity  *)
(* (e, newLower))); here the two strings range over every string of at    *)
(* most MaxLen letters.                                                    *)
(***************************************************************************)
SimAlphabet == {"a", "b"}

SimStrings == SeqsUpTo(SimAlphabet, MaxLen)

\* the value of one call, with the arguments it was given
SimCall(a, b) ==
    [t |-> "call", v |-> [args |-> <<a, b>>, score |-> levenshteinSimilarity(a, b)]]

\* levenshteinSimilarity(a, b)
Similarity(a, b) ==
    /\ lastSim' = SimCall(a, b)
    /\ UNCHANGED <<now, heap, result, firstDump, lastDump, merged, mergeStatus,
                   regexBefore, lastLlm, merges, quickStatus, enh>>

SimilarityNext == \E a \in SimStrings, b \in SimStrings : Similarity(a, b)

SimilaritySpec == Init /\ [][SimilarityNext]_vars

(***************************************************************************)
(* Properties of levenshteinSimilarity, checked under SimilaritySpec.      *)
(***************************************************************************)
\* the edit distance by its defining recurrence
RECURSIVE EditDistance(_, _)
EditDistance(a, b) ==
    IF Len(a) = 0 THEN Len(b)
    ELSE IF Len(b) = 0 THEN Len(a)
    ELSE IF Head(a) = Head(b) THEN EditDistance(Tail(a), Tail(b))
    ELSE 1 + Min2(EditDistance(Tail(a), Tail(b)),
                  Min2(EditDistance(Tail(a), b), EditDistance(a, Tail(b))))

\* C11: the similarity of two strings is 1 when they are identical (two empty
\* strings included), 0 when exactly one of them is empty, and otherwise
\* 1 - distance / (length of the longer string) with distance the Levenshtein
\* edit distance; the divisor is never zero, and exchanging the two arguments
\* gives the same value.
C11_SimilarityFormula ==
    lastSim.t = "call" =>
        LET a == lastSim.v.args[1]
            b == lastSim.v.args[2]
            score == lastSim.v.score
            longer == Max2(Len(a), Len(b))
            swapped == levenshteinSimilarity(b, a)
        IN /\ score.den # 0
           /\ a = b => score.num = score.den
           /\ (a # b /\ (Len(a) = 0 \/ Len(b) = 0)) => score.num = 0
           /\ (a # b /\ Len(a) > 0 /\ Len(b) > 0) =>
                 score.num * longer = (longer - EditDistance(a, b)) * score.den
           /\ swapped.den # 0
           /\ swapped.num * score.den = score.num * swapped.den

\* two distinct non-empty strings of different lengths, with a value strictly
\* between 0 and 1
C11_Witness ==
    /\ lastSim.t = "call"
    /\ Len(lastSim.v.args[1]) > 0
    /\ Len(lastSim.v.args[2]) > Len(lastSim.v.args[1])
    /\ lastSim.v.score.num > 0
    /\ lastSim.v.score.num < lastSim.v.score.den

====
